---- MODULE Spec2Model ----
(***************************************************************************)
(* Model of src/src/motorola_crawler.py: navigation-link extraction from a *)
(* table-of-contents page, the retrying single-page crawl and the bundle   *)
(* orchestrator.  Strings that the code inspects (URLs, heading texts) are *)
(* sequences of tokens so that the substring, prefix and regular-          *)
(* expression tests of the code are computed, not assumed.                 *)
(***************************************************************************)
EXTENDS Integers, Sequences, FiniteSets, TLC

VARIABLES
    pc,            \* control point of the running coroutine
    caller,        \* "none" | "bundle" | "direct": who called crawl_single_page
    toc_url,       \* argument of crawl_documentation_bundle
    toc_result,    \* result of crawler.arun(toc_url) in extract_navigation_links
    extracted,     \* what extract_navigation_links gave back to its caller
    max_pages,     \* argument of crawl_documentation_bundle: <<>> is None, <<k>> is k
    nav_links,     \* crawl_documentation_bundle's nav_links (after the optional cut)
    idx,           \* 1-based position of the for loop over nav_links
    documents,     \* crawl_documentation_bundle's documents list
    returned,      \* value returned by crawl_documentation_bundle: <<>> none yet, <<v>> v
    url,           \* crawl_single_page argument
    nav_text,      \* crawl_single_page argument: <<>> is None, <<t>> is the string t
    max_retries,   \* crawl_single_page argument
    attempt,       \* loop variable of the retry loop
    last_error,    \* crawl_single_page's last_error: <<>> is None, <<m>> is the string m
    result,        \* crawl_single_page's result: <<>> is None, <<r>> is the CrawlResult r
    page_result,   \* value returned by crawl_single_page: <<>> none yet, <<d>> the dict d
    page_log,      \* history: awaits of the current crawl_single_page call, in order
    session_log    \* history: page crawls and politeness sleeps of the bundle crawl

vars == <<pc, caller, toc_url, toc_result, extracted, max_pages, nav_links, idx,
          documents, returned, url, nav_text, max_retries, attempt, last_error,
          result, page_result, page_log, session_log>>

(***************************************************************************)
(* Bounds of the model.                                                    *)
(***************************************************************************)
MaxToc == 4            \* elements in a table-of-contents document
MaxRetriesBound == 3   \* largest max_retries passed to crawl_single_page
MaxPagesBound == 2     \* largest max_pages passed to crawl_documentation_bundle

(***************************************************************************)
(* Program constants.                                                      *)
(***************************************************************************)
DefaultMaxRetries == 2
SecurityBackoffMs == 3000
NetworkBackoffMs == 2000
PolitenessDelayMs == 500
SnippetLen == 1500
CookieMinLen == 100

(***************************************************************************)
(* Sequence helpers.                                                       *)
(***************************************************************************)
Min(a, b) == IF a <= b THEN a ELSE b

Max(a, b) == IF a >= b THEN a ELSE b

Take(s, n) == SubSeq(s, 1, Min(Max(n, 0), Len(s)))

Range(s) == {s[i] : i \in 1..Len(s)}

\* needle in haystack (Python's `in` on strings), on token sequences
Contains(haystack, needle) ==
    \E i \in 0..(Len(haystack) - Len(needle)) :
        SubSeq(haystack, i + 1, i + Len(needle)) = needle

\* s[:k] of Python: a negative k counts from the end
PySlicePrefix(s, k) ==
    IF k >= 0 THEN Take(s, k) ELSE Take(s, Len(s) + k)

SeqsUpTo(S, n) == UNION {[1..k -> S] : k \in 0..n}

(***************************************************************************)
(* URLs and hrefs as token sequences.                                      *)
(***************************************************************************)
Origin == "https://docs.motorolasolutions.com"

Digits == {"89303", "11111", "23111842"}

\* url.startswith('http')
StartsWithHttp(u) == Len(u) > 0 /\ u[1] \in {Origin, "http://partner.example"}

\* re.search(r'/bundle/(\d+)/', toc_url): << >> when there is no match, <<id>> otherwise
BundleMatch(u) ==
    LET hits == {i \in 1..(Len(u) - 2) :
                    /\ u[i] = "/bundle/"
                    /\ u[i + 1] \in Digits
                    /\ u[i + 2] \in {"/page/", "/"}}
    IN  IF hits = {} THEN <<>>
        ELSE <<u[(CHOOSE i \in hits : \A j \in hits : i <= j) + 1]>>

HrefRel == <<"/bundle/", "89303", "/page/", "a", ".html">>

HrefAbs == <<Origin>> \o HrefRel

HrefSlash == HrefRel \o <<"/">>

HrefFrag == HrefRel \o <<"#", "sec1">>

HrefDetail == <<"/bundle/", "89303", "/page/", "b", ".html">>

HrefLogin == <<"/auth/login", "?next=">> \o HrefRel

HrefOther == <<"/bundle/", "11111", "/page/", "a", ".html">>

TocUrls ==
    { <<Origin, "/bundle/", "89303", "/page/", "23111842", ".html">>,
      <<Origin, "/bundle/", "latest", "/page/", "index", ".html">>,
      <<Origin, "/docs/", "index", ".html">> }

(***************************************************************************)
(* Texts are token sequences; " " is a whitespace token.                   *)
(***************************************************************************)
Whitespace == {" "}

RECURSIVE LStrip(_)
LStrip(t) == IF t # <<>> /\ Head(t) \in Whitespace THEN LStrip(Tail(t)) ELSE t

RECURSIVE RStrip(_)
RStrip(t) ==
    IF t # <<>> /\ t[Len(t)] \in Whitespace THEN RStrip(SubSeq(t, 1, Len(t) - 1)) ELSE t

\* str.strip(), as get_text(strip=True) applies it to an anchor's text
Strip(t) == RStrip(LStrip(t))

LowerWord(w) ==
    CASE w = "What's" -> "what's"
      [] w = "WHATS" -> "whats"
      [] w \in {"New", "NEW"} -> "new"
      [] w = "Overview" -> "overview"
      [] w = "Notes" -> "notes"
      [] w = "Content" -> "content"
      [] w = "Cookie" -> "cookie"
      [] w = "Privacy Statement" -> "privacy statement"
      [] OTHER -> w

\* str.lower()
Lower(t) == [i \in 1..Len(t) |-> LowerWord(t[i])]

(***************************************************************************)
(* The table-of-contents document: a sequence of sibling elements.  An     *)
(* element has a tag name, a text, the anchors below it in document order  *)
(* (what find_all('a', href=True) returns on it) and, per child element,   *)
(* the anchors below that child.                                           *)
(***************************************************************************)
Anchor(h, t) == [href |-> h, text |-> t]

A1 == Anchor(HrefRel, <<"Alpha">>)

A2 == Anchor(HrefAbs, <<" ", "Beta">>)

A3 == Anchor(HrefSlash, <<"Gamma">>)

A4 == Anchor(HrefRel, <<" ">>)

A5 == Anchor(HrefLogin, <<"Login">>)

A6 == Anchor(HrefOther, <<"Delta">>)

A7 == Anchor(HrefFrag, <<"Eps">>)

Anchors == {A1, A2, A3, A4, A5, A6, A7}

Element(n, t, l, c) == [name |-> n, text |-> t, links |-> l, inner |-> c]

\* <li><a href=..>text</a></li>: the one child is the anchor itself
Li(a) == Element("li", a.text, <<a>>, <<<<>>>>)

Para(a) == Element("p", a.text, <<a>>, <<<<>>>>)

TocElements ==
    {Li(a) : a \in Anchors} \cup {Para(A1)} \cup
    { Element("h2", <<"What's", "New">>, <<>>, <<>>),
      Element("h3", <<"WHATS", "NEW">>, <<A1>>, <<<<A1>>>>),
      Element("h2", <<"Overview">>, <<>>, <<>>),
      Element("h4", <<"Notes">>, <<>>, <<>>) }

TocDocs == SeqsUpTo(TocElements, MaxToc)

\* outcomes of crawler.arun(toc_url)
\* a failed load may still carry the markup received so far
TocResults ==
    {[success |-> TRUE, error_message |-> <<>>, html |-> d] : d \in TocDocs} \cup
    {[success |-> FALSE, error_message |-> <<"Timeout">>, html |-> d] :
        d \in {<<>>, <<Element("h2", <<"What's", "New">>, <<>>, <<>>), Li(A1)>>}}

(***************************************************************************)
(* extract_navigation_links                                                *)
(***************************************************************************)
HeadingNames == {"h1", "h2", "h3", "h4"}

MajorHeadingNames == {"h1", "h2", "h3"}

\* "what's new" in text.lower() or "whats new" in text.lower()
IsWhatsNew(text) ==
    \/ Contains(Lower(text), <<"what's", "new">>)
    \/ Contains(Lower(text), <<"whats", "new">>)

\* position of the heading the search loop breaks on, 0 when it finds none
WhatsNewSection(html) ==
    LET hits == {i \in 1..Len(html) :
                    html[i].name \in HeadingNames /\ IsWhatsNew(html[i].text)}
    IN  IF hits = {} THEN 0 ELSE CHOOSE i \in hits : \A j \in hits : i <= j

\* f'/bundle/{bundle_id}/page/' in url and '/auth/login' not in url
IsBundlePage(u, bundle_id) ==
    /\ Contains(u, <<"/bundle/", bundle_id, "/page/">>)
    /\ ~Contains(u, <<"/auth/login">>)

\* the full URL of an href
FullUrl(u) == IF ~StartsWithHttp(u) THEN <<Origin>> \o u ELSE u

\* mutant: no test against seen_urls
AddSectionLinkNoDedup(acc, a, bundle_id) ==
    IF IsBundlePage(a.href, bundle_id) /\ Strip(a.text) # <<>>
    THEN [acc EXCEPT !.navigation_links =
                         Append(@, [url |-> FullUrl(a.href), nav_text |-> Strip(a.text)])]
    ELSE acc

\* body of `for link in links` of the section scan, for one anchor
AddSectionLink(acc, a, bundle_id) ==
    LET text == Strip(a.text)
        full == FullUrl(a.href)
    IN  IF IsBundlePage(a.href, bundle_id) /\ full \notin acc.seen_urls /\ text # <<>>
        THEN [acc EXCEPT !.seen_urls = @ \cup {full},
                         !.navigation_links =
                             Append(@, [url |-> full, nav_text |-> text])]
        ELSE acc

RECURSIVE AddSectionLinks(_, _, _)
AddSectionLinks(acc, links, bundle_id) ==
    IF links = <<>> THEN acc
    ELSE AddSectionLinks(AddSectionLink(acc, Head(links), bundle_id),
                         Tail(links), bundle_id)

\* The elements `current` runs over: whats_new_section.find_next() and then its
\* find_next_sibling()s, up to a major heading.  find_next() is the first child
\* of the heading when it has one, the element after the heading otherwise.
RECURSIVE UntilMajorHeading(_)
UntilMajorHeading(elems) ==
    IF elems = <<>> \/ Head(elems).name \in MajorHeadingNames THEN <<>>
    ELSE <<Head(elems).links>> \o UntilMajorHeading(Tail(elems))

SectionRegion(html, h) ==
    IF html[h].inner # <<>> THEN html[h].inner
    ELSE UntilMajorHeading(SubSeq(html, h + 1, Len(html)))

RECURSIVE SectionScan(_, _, _)
SectionScan(acc, region, bundle_id) ==
    IF region = <<>> THEN acc
    ELSE SectionScan(AddSectionLinks(acc, Head(region), bundle_id),
                     Tail(region), bundle_id)

\* body of `for li in soup.find_all('li')` for one list item; seen_urls is
\* bound only when the section branch ran
AddFallbackLink(acc, li, bundle_id) ==
    IF acc.raised \/ li.links = <<>> THEN acc
    ELSE LET a == Head(li.links)
             text == Strip(a.text)
             full == FullUrl(a.href)
         IN  IF ~IsBundlePage(a.href, bundle_id) THEN acc
             ELSE IF ~acc.bound THEN [acc EXCEPT !.raised = TRUE]
             ELSE IF full \notin acc.seen_urls /\ text # <<>>
             THEN [acc EXCEPT !.seen_urls = @ \cup {full},
                              !.navigation_links =
                                  Append(@, [url |-> full, nav_text |-> text])]
             ELSE acc

RECURSIVE FallbackScan(_, _, _)
FallbackScan(acc, elems, bundle_id) ==
    IF elems = <<>> THEN acc
    ELSE FallbackScan(IF Head(elems).name = "li"
                      THEN AddFallbackLink(acc, Head(elems), bundle_id)
                      ELSE acc,
                      Tail(elems), bundle_id)

\* the exits of extract_navigation_links that return a list; any other exit is
\* an exception, which crawl_documentation_bundle does not catch
Returns == {"toc_fetch_failed", "no_bundle_id", "scanned"}

\* mutant: the list-item scan runs after the section scan whatever it found
ScanTocMerged(bundle_id, html) ==
    LET h == WhatsNewSection(html)
        start == [bound |-> h # 0, raised |-> FALSE, seen_urls |-> {},
                  navigation_links |-> <<>>]
        section == IF h # 0
                   THEN SectionScan(start, SectionRegion(html, h), bundle_id)
                   ELSE start
        final == FallbackScan(section, html, bundle_id)
    IN  IF final.raised THEN [via |-> "UnboundLocalError", links |-> <<>>]
        ELSE [via |-> "scanned", links |-> final.navigation_links]

\* how extract_navigation_links ends for the TOC URL u and the fetch result r:
\* via names the exit taken, links is the list returned
\* lines 66-137: the two scans of the parsed document
ScanToc(bundle_id, html) ==
    LET h == WhatsNewSection(html)
        start == [bound |-> h # 0, raised |-> FALSE, seen_urls |-> {},
                  navigation_links |-> <<>>]
        section == IF h # 0
                   THEN SectionScan(start, SectionRegion(html, h), bundle_id)
                   ELSE start
        final == IF section.navigation_links = <<>>
                 THEN FallbackScan(section, html, bundle_id)
                 ELSE section
    IN  IF final.raised THEN [via |-> "UnboundLocalError", links |-> <<>>]
        ELSE [via |-> "scanned", links |-> final.navigation_links]

\* mutant: no test of bundle_match before bundle_match.group(1)
ParseTocUnchecked(u, r) ==
    IF BundleMatch(u) = <<>> THEN [via |-> "AttributeError", links |-> <<>>]
    ELSE ScanToc(BundleMatch(u)[1], r.html)

\* lines 57-137: the bundle id, then the scans
ParseToc(u, r) ==
    IF BundleMatch(u) = <<>> THEN [via |-> "no_bundle_id", links |-> <<>>]
    ELSE ScanToc(BundleMatch(u)[1], r.html)

\* mutant: the markup of a failed load is parsed like any other
ExtractIgnoringFailure(u, r) == ParseToc(u, r)

extract_navigation_links(u, r) ==
    IF ~r.success THEN [via |-> "toc_fetch_failed", links |-> <<>>]
    ELSE ParseToc(u, r)

(***************************************************************************)
(* Pages.  A page document is a sequence of sibling elements with a tag    *)
(* name, an id, a class and a text.                                        *)
(***************************************************************************)
PageElement(n, i, c, t) == [name |-> n, id |-> i, class |-> c, text |-> t]

PageGuide ==
    << PageElement("nav", "", <<>>, <<"Menu">>),
       PageElement("h2", "sec1", <<>>, <<"Setup">>),
       PageElement("h5", "", <<>>, <<"Tip">>),
       PageElement("p", "", <<>>, <<" ", "Insert", " ", " ", "battery">>),
       PageElement("h3", "", <<>>, <<"Next">>),
       PageElement("main", "", <<>>, <<"Main", " ", "text">>) >>

PagePlain ==
    << PageElement("div", "", <<"page-", "Content">>, <<"Release", " ", "notes">>),
       PageElement("p", "", <<>>, <<"Footer">>) >>

PageBlocked ==
    << PageElement("p", "", <<>>, <<"Request unsuccessful">>) >>

\* the fragment's target is there but it and its siblings up to the heading are blank
PageEmptyAnchor ==
    << PageElement("span", "sec1", <<>>, <<" ">>),
       PageElement("p", "", <<>>, <<>>),
       PageElement("h4", "", <<>>, <<"Later">>),
       PageElement("div", "", <<"content">>, <<"Body">>),
       PageElement("article", "", <<>>, <<"Article", " ", "text">>) >>

\* no main, no article, no class with 'content'
PageBare ==
    << PageElement("script", "", <<>>, <<"code">>),
       PageElement("p", "", <<>>, <<"Only">>),
       PageElement("p", "", <<>>, <<" ", "text", " ">>) >>

\* nothing but noise
PageEmpty ==
    << PageElement("nav", "", <<>>, <<"Menu">>) >>

LongWord == [i \in 1..SnippetLen |-> "w"]

LongNotice == [i \in 1..(CookieMinLen + 1) |-> IF i = 1 THEN "Cookie" ELSE "."]

ShortNotice == [i \in 1..CookieMinLen |-> IF i = 1 THEN "Privacy Statement" ELSE "."]

\* a cookie notice above the length of line 212, one at it, and a long body
PageLong ==
    << PageElement("div", "", <<>>, LongNotice),
       PageElement("p", "", <<>>, ShortNotice),
       PageElement("p", "", <<>>, <<"Intro", " ", " ">> \o LongWord \o <<" ", "end">>) >>

PageDocs == {PageGuide, PagePlain, PageEmptyAnchor, PageBare, PageEmpty, PageLong}

\* outcomes of crawler.arun(url) in crawl_single_page
CleanResults ==
    {[success |-> TRUE, error_message |-> <<>>, markdown |-> <<"Release", " ", "notes">>,
      title |-> <<"Guide", " -- ", "Motorola">>, html |-> d] : d \in PageDocs}

BlockedResults ==
    {[success |-> TRUE, error_message |-> <<>>, markdown |-> m,
      title |-> <<>>, html |-> PageBlocked] :
        m \in { <<"Request unsuccessful", ".">>,
                <<"Blocked", ":", "Incapsula incident ID", "42">> }}

FailedResults ==
    {[success |-> FALSE, error_message |-> m, markdown |-> <<>>,
      title |-> <<>>, html |-> <<>>] : m \in {<<"Timeout">>, <<>>}}

FetchResults == CleanResults \cup BlockedResults \cup FailedResults

\* the site: page b can be served with any of the layouts, the pages linked from
\* the table of contents with the first two
PagesAt(u) ==
    IF Contains(u, HrefDetail) THEN PageDocs ELSE {PageGuide, PagePlain}

\* what crawler.arun(u) can give
Served(u) == {r \in FetchResults : r \in CleanResults => r.html \in PagesAt(u)}

(***************************************************************************)
(* Content selection and the Document of crawl_single_page.                *)
(***************************************************************************)
NoiseNames == {"script", "style", "nav", "header", "footer"}

RECURSIVE Filter(_, _)
Filter(s, keep) ==
    IF s = <<>> THEN <<>>
    ELSE (IF Head(s) \in keep THEN <<Head(s)>> ELSE <<>>) \o Filter(Tail(s), keep)

\* soup after both decompose loops
Cleaned(html) ==
    Filter(html, {e \in Range(html) :
        /\ e.name \notin NoiseNames
        /\ ~(/\ \/ Contains(Lower(e.text), <<"cookie">>)
                \/ Contains(Lower(e.text), <<"privacy statement">>)
             /\ Len(e.text) > CookieMinLen)})

\* ' '.join(parts)
RECURSIVE JoinSpace(_)
JoinSpace(parts) ==
    IF parts = <<>> THEN <<>>
    ELSE IF Len(parts) = 1 THEN Head(parts)
    ELSE Head(parts) \o <<" ">> \o JoinSpace(Tail(parts))

\* s.split(): the maximal runs of non-whitespace tokens, one word per step
RECURSIVE Split(_)
Split(t) ==
    LET s == LStrip(t)
        gaps == {i \in 1..Len(s) : s[i] \in Whitespace}
        end == IF gaps = {} THEN Len(s) + 1
               ELSE CHOOSE i \in gaps : \A j \in gaps : i <= j
    IN  IF s = <<>> THEN <<>>
        ELSE <<SubSeq(s, 1, end - 1)>> \o Split(SubSeq(s, end, Len(s)))

\* ' '.join(section_content.split())
NormalizeSpace(t) == JoinSpace(Split(t))

\* url.split('#')[1]
RECURSIVE UpToHash(_)
UpToHash(u) ==
    IF u = <<>> \/ Head(u) = "#" THEN <<>> ELSE <<Head(u)>> \o UpToHash(Tail(u))

RECURSIVE AfterHash(_)
AfterHash(u) ==
    IF u = <<>> THEN <<>>
    ELSE IF Head(u) = "#" THEN UpToHash(Tail(u)) ELSE AfterHash(Tail(u))

\* texts of the siblings after the anchor target, up to a heading, empty ones left out
RECURSIVE SiblingTexts(_)
SiblingTexts(elems) ==
    IF elems = <<>> \/ Head(elems).name \in HeadingNames THEN <<>>
    ELSE (IF Strip(Head(elems).text) # <<>> THEN <<Strip(Head(elems).text)>> ELSE <<>>)
         \o SiblingTexts(Tail(elems))

\* section_content after `if '#' in url`: <<>> stands for None and for ''
AnchorContent(soup, u) ==
    IF ~Contains(u, <<"#">>) THEN <<>>
    ELSE LET anchor == AfterHash(u)
             hits == {i \in 1..Len(soup) : <<soup[i].id>> = anchor}
         IN  IF hits = {} THEN <<>>
             ELSE LET i == CHOOSE k \in hits : \A j \in hits : k <= j
                  IN  JoinSpace(<<Strip(soup[i].text)>>
                                \o SiblingTexts(SubSeq(soup, i + 1, Len(soup))))

\* soup.find(['main', 'article']) or soup.find(class_=...'content' in c.lower())
MainContent(soup) ==
    LET mains == {i \in 1..Len(soup) : soup[i].name \in {"main", "article"}}
        classed == {i \in 1..Len(soup) : Contains(Lower(soup[i].class), <<"content">>)}
        first(S) == CHOOSE k \in S : \A j \in S : k <= j
    IN  IF mains # {} THEN <<soup[first(mains)]>>
        ELSE IF classed # {} THEN <<soup[first(classed)]>>
        ELSE <<>>

RECURSIVE StrippedTexts(_)
StrippedTexts(elems) ==
    IF elems = <<>> THEN <<>>
    ELSE (IF Strip(Head(elems).text) # <<>> THEN <<Strip(Head(elems).text)>> ELSE <<>>)
         \o StrippedTexts(Tail(elems))

\* mutant: the main container is preferred to the anchor's section
SelectContentMainFirst(html, u) ==
    LET soup == Cleaned(html)
        anchored == AnchorContent(soup, u)
        section_content ==
            IF MainContent(soup) # <<>> THEN Strip(MainContent(soup)[1].text)
            ELSE IF anchored # <<>> THEN anchored
            ELSE JoinSpace(StrippedTexts(soup))
    IN  NormalizeSpace(section_content)

\* lines 223-253
SelectContent(html, u) ==
    LET soup == Cleaned(html)
        anchored == AnchorContent(soup, u)
        section_content ==
            IF anchored # <<>> THEN anchored
            ELSE IF MainContent(soup) # <<>> THEN Strip(MainContent(soup)[1].text)
            ELSE JoinSpace(StrippedTexts(soup))
    IN  NormalizeSpace(section_content)

\* title.split(' -- ' (the em-dash separator))[0]
RECURSIVE UpToDash(_)
UpToDash(t) ==
    IF t = <<>> \/ Head(t) = " -- " THEN <<>> ELSE <<Head(t)>> \o UpToDash(Tail(t))

PageTitle(nt, r) ==
    IF nt # <<>> /\ nt[1] # <<>> THEN nt[1]
    ELSE IF r.title = <<>> THEN <<"Unknown">>
    ELSE UpToDash(r.title)

\* mutant: the snippet is the whole content
DocumentUncut(u, nt, r) ==
    LET section_content == SelectContent(r.html, u)
    IN  [title |-> PageTitle(nt, r),
         url |-> u,
         nav_text |-> nt,
         content_snippet |-> section_content,
         full_content |-> section_content,
         content_length |-> Len(section_content),
         source_type |-> "motorola_docs"]

\* the dict of lines 255-264 (crawled_at, a wall-clock reading, is left out)
Document(u, nt, r) ==
    LET section_content == SelectContent(r.html, u)
    IN  [title |-> PageTitle(nt, r),
         url |-> u,
         nav_text |-> nt,
         content_snippet |-> Take(section_content, SnippetLen),
         full_content |-> section_content,
         content_length |-> Len(section_content),
         source_type |-> "motorola_docs"]

\* the error dict of lines 182-186 and 197-201
ErrorDict(u, msg) == [error |-> TRUE, url |-> u, error_message |-> msg]

\* doc.get('error')
IsError(d) == "error" \in DOMAIN d /\ d.error

(***************************************************************************)
(* crawl_single_page: the retry loop                                       *)
(***************************************************************************)
SecurityBlockMessage == <<"Security block (WAF/CDN)">>

\* mutant: only the first signature is looked for
IsSecurityBlockFirstOnly(content) == Contains(content, <<"Request unsuccessful">>)

\* "Request unsuccessful" in content or "Incapsula incident ID" in content
IsSecurityBlock(content) ==
    \/ Contains(content, <<"Request unsuccessful">>)
    \/ Contains(content, <<"Incapsula incident ID">>)

\* last_error or "Unknown error"
ErrorOrUnknown(err) ==
    IF err = <<>> \/ err[1] = <<>> THEN <<"Unknown error">> ELSE err[1]

\* mutant: the retry test stops one attempt early
RetriesLeftEarly(n, limit) == n < limit - 1

\* `attempt < max_retries`: a backoff sleep and `continue` follow
RetriesLeft(n, limit) == n < limit

\* range(max_retries + 1) has an element after n
HasNextAttempt(n, limit) == n + 1 < limit + 1

\* mutant: last_error keeps the first failure instead of the latest
KeepFirstError(old, r) ==
    IF old # <<>> THEN old[1]
    ELSE IF r.success THEN SecurityBlockMessage ELSE r.error_message

\* the value last_error takes after the fetch result r (lines 177 and 190)
NewLastError(old, r) ==
    IF r.success THEN SecurityBlockMessage ELSE r.error_message

\* mutant: an error recorded by an earlier attempt makes the call fail
AfterLoopErrorSticky(u, nt, r, err) ==
    IF ~r.success \/ err # <<>> THEN ErrorDict(u, ErrorOrUnknown(err))
    ELSE Document(u, nt, r)

\* the code after the loop, lines 196-264
AfterLoop(u, nt, r, err) ==
    IF ~r.success THEN ErrorDict(u, ErrorOrUnknown(err)) ELSE Document(u, nt, r)

\* how a fetch result is classed by lines 170-190
Outcome(r) ==
    IF ~r.success THEN "failed"
    ELSE IF IsSecurityBlock(r.markdown) THEN "security_block"
    ELSE "clean"

PageIdle ==
    /\ url = <<>>
    /\ nav_text = <<>>
    /\ max_retries = 0
    /\ attempt = 0
    /\ last_error = <<>>
    /\ result = <<>>
    /\ page_log = <<>>

\* mutant: one retry counter for the whole session, so that the attempts used
\* up by the pages that failed are missing for the next page
EnterPageSharedBudget(u, nt, mr) ==
    /\ url' = u
    /\ nav_text' = nt
    /\ max_retries' = mr
    /\ attempt' = Min(mr, Cardinality({i \in 1..Len(session_log) :
                             session_log[i].ev = "result" /\ session_log[i].error}))
    /\ last_error' = <<>>
    /\ result' = <<>>
    /\ page_result' = <<>>
    /\ page_log' = <<>>
    /\ pc' = "page_fetch"

\* entry of crawl_single_page(u, nt, mr): lines 162-166
EnterPage(u, nt, mr) ==
    /\ url' = u
    /\ nav_text' = nt
    /\ max_retries' = mr
    /\ attempt' = 0
    /\ last_error' = <<>>
    /\ result' = <<>>
    /\ page_result' = <<>>
    /\ page_log' = <<>>
    /\ pc' = "page_fetch"

PageUrls ==
    {FullUrl(HrefRel), FullUrl(HrefFrag), FullUrl(HrefDetail),
     FullUrl(HrefDetail \o <<"#", "sec1">>)}

NavTexts == {<<>>, <<<<"Alpha">>>>}

\* a direct call crawl_single_page(url, nav_text, max_retries)
CallCrawlSinglePage ==
    /\ pc = "idle"
    /\ \E u \in PageUrls, nt \in NavTexts, mr \in 0..MaxRetriesBound :
           EnterPage(u, nt, mr)
    /\ caller' = "direct"
    /\ UNCHANGED <<toc_url, toc_result, extracted, max_pages, nav_links, idx,
                   documents, returned, session_log>>

\* one iteration of `for attempt in range(max_retries + 1)`, from the await of
\* crawler.arun to the next await or to the return
FetchAttempt ==
    /\ pc = "page_fetch"
    /\ \E r \in Served(url) :
        LET err == <<NewLastError(last_error, r)>>
        IN  /\ result' = <<r>>
            /\ page_log' = Append(page_log, [ev |-> "fetch", attempt |-> attempt,
                                             outcome |-> Outcome(r)])
            /\ IF Outcome(r) = "clean"
               THEN \* break
                    /\ last_error' = last_error
                    /\ attempt' = attempt
                    /\ page_result' = <<AfterLoop(url, nav_text, r, last_error)>>
                    /\ pc' = "page_return"
               ELSE /\ last_error' = err
                    /\ IF RetriesLeft(attempt, max_retries)
                       THEN \* sleep, then continue
                            /\ attempt' = attempt
                            /\ page_result' = page_result
                            /\ pc' = "page_sleep"
                       ELSE IF Outcome(r) = "security_block"
                       THEN \* return of lines 182-186
                            /\ attempt' = attempt
                            /\ page_result' = <<ErrorDict(url, err[1])>>
                            /\ pc' = "page_return"
                       ELSE IF HasNextAttempt(attempt, max_retries)
                       THEN \* the loop body ends without a sleep
                            /\ attempt' = attempt + 1
                            /\ page_result' = page_result
                            /\ pc' = "page_fetch"
                       ELSE \* the loop is exhausted
                            /\ attempt' = attempt
                            /\ page_result' = <<AfterLoop(url, nav_text, r, err)>>
                            /\ pc' = "page_return"
    /\ UNCHANGED <<caller, toc_url, toc_result, extracted, max_pages, nav_links, idx,
                   documents, returned, url, nav_text, max_retries, session_log>>

\* mutant: the same wait whatever the failure was
BackoffMsUniform(r) == NetworkBackoffMs

\* asyncio.sleep(3) after a security block, asyncio.sleep(2) after a failed
\* fetch, then `continue`
BackoffMs(r) == IF r.success THEN SecurityBackoffMs ELSE NetworkBackoffMs

Backoff ==
    /\ pc = "page_sleep"
    /\ page_log' = Append(page_log, [ev |-> "sleep", ms |-> BackoffMs(result[1])])
    /\ IF HasNextAttempt(attempt, max_retries)
       THEN /\ attempt' = attempt + 1
            /\ page_result' = page_result
            /\ pc' = "page_fetch"
       ELSE \* the loop is exhausted
            /\ attempt' = attempt
            /\ page_result' = <<AfterLoop(url, nav_text, result[1], last_error)>>
            /\ pc' = "page_return"
    /\ UNCHANGED <<caller, toc_url, toc_result, extracted, max_pages, nav_links, idx,
                   documents, returned, url, nav_text, max_retries, last_error,
                   result, session_log>>

(***************************************************************************)
(* crawl_documentation_bundle                                              *)
(***************************************************************************)
MaxPagesValues == {<<>>} \cup {<<k>> : k \in -1..MaxPagesBound}

\* `if max_pages:` and the slice under it
Limited(links, mp) ==
    IF mp # <<>> /\ mp[1] # 0 THEN PySlicePrefix(links, mp[1]) ELSE links

\* crawl_documentation_bundle(toc_url, .) up to the return of
\* extract_navigation_links
ExtractNavigationLinks ==
    /\ pc = "idle"
    /\ \E u \in TocUrls, r \in TocResults :
        LET out == extract_navigation_links(u, r)
        IN  /\ toc_url' = u
            /\ toc_result' = <<r>>
            /\ extracted' = <<out>>
            /\ pc' = IF out.via \in Returns THEN "links_returned" ELSE "raised"
    /\ caller' = "bundle"
    /\ UNCHANGED <<max_pages, nav_links, idx, documents, returned, url, nav_text,
                   max_retries, attempt, last_error, result, page_result, page_log,
                   session_log>>

\* lines 288-299, with the max_pages the call was made with
CrawlBundleBegin ==
    /\ pc = "links_returned"
    /\ \E mp \in MaxPagesValues :
        /\ max_pages' = mp
        /\ IF extracted[1].links = <<>>
           THEN /\ returned' = <<<<>>>>
                /\ pc' = "done"
                /\ UNCHANGED nav_links
           ELSE /\ nav_links' = Limited(extracted[1].links, mp)
                /\ pc' = "loop"
                /\ UNCHANGED returned
    /\ toc_result' = <<>>
    /\ idx' = 1
    /\ documents' = <<>>
    /\ UNCHANGED <<caller, toc_url, extracted, url, nav_text, max_retries, attempt,
                   last_error, result, page_result, page_log, session_log>>

\* lines 301-305: the next link, and the call of crawl_single_page for it
CrawlNextPage ==
    /\ pc = "loop"
    /\ idx <= Len(nav_links)
    /\ EnterPage(nav_links[idx].url, <<nav_links[idx].nav_text>>, DefaultMaxRetries)
    /\ session_log' = Append(session_log, [ev |-> "crawl", url |-> nav_links[idx].url])
    /\ UNCHANGED <<caller, toc_url, toc_result, extracted, max_pages, nav_links, idx,
                   documents, returned>>

\* mutant: every doc is appended
CollectAll(docs, doc) == Append(docs, doc)

\* lines 307-311: only a doc without 'error' is appended
Collect(docs, doc) == IF IsError(doc) THEN docs ELSE Append(docs, doc)

\* mutant: a failed page ends the loop over the n links
NextIndexBreakOnError(i, doc, n) == IF IsError(doc) THEN n + 1 ELSE i + 1

\* the for loop of line 301 moves on to the next of the n links whatever doc was
NextIndex(i, doc, n) == i + 1

\* lines 305-311: crawl_single_page has returned doc
PageReturn ==
    /\ pc = "page_return"
    /\ caller = "bundle"
    /\ documents' = Collect(documents, page_result[1])
    /\ session_log' = Append(session_log,
                             [ev |-> "result", url |-> page_result[1].url,
                              error |-> IsError(page_result[1])])
    /\ url' = <<>>
    /\ nav_text' = <<>>
    /\ max_retries' = 0
    /\ attempt' = 0
    /\ last_error' = <<>>
    /\ result' = <<>>
    /\ page_log' = <<>>
    /\ pc' = "politeness"
    /\ UNCHANGED <<caller, toc_url, toc_result, extracted, max_pages, nav_links, idx,
                   returned, page_result>>

\* mutant: the next iteration starts without the sleep
PolitenessDelaySkipped ==
    /\ pc = "politeness"
    /\ idx' = NextIndex(idx, page_result[1], Len(nav_links))
    /\ page_result' = <<>>
    /\ pc' = "loop"
    /\ UNCHANGED <<caller, toc_url, toc_result, extracted, max_pages, nav_links,
                   documents, returned, url, nav_text, max_retries, attempt,
                   last_error, result, page_log, session_log>>

\* line 314: asyncio.sleep(0.5), then the next iteration
PolitenessDelay ==
    /\ pc = "politeness"
    /\ session_log' = Append(session_log, [ev |-> "sleep", ms |-> PolitenessDelayMs])
    /\ idx' = NextIndex(idx, page_result[1], Len(nav_links))
    /\ page_result' = <<>>
    /\ pc' = "loop"
    /\ UNCHANGED <<caller, toc_url, toc_result, extracted, max_pages, nav_links,
                   documents, returned, url, nav_text, max_retries, attempt,
                   last_error, result, page_log>>

\* lines 316-317
BundleReturn ==
    /\ pc = "loop"
    /\ idx > Len(nav_links)
    /\ returned' = <<documents>>
    /\ pc' = "done"
    /\ UNCHANGED <<caller, toc_url, toc_result, extracted, max_pages, nav_links, idx,
                   documents, url, nav_text, max_retries, attempt, last_error,
                   result, page_result, page_log, session_log>>

Init ==
    /\ pc = "idle"
    /\ caller = "none"
    /\ toc_url = <<>>
    /\ toc_result = <<>>
    /\ extracted = <<>>
    /\ max_pages = <<>>
    /\ nav_links = <<>>
    /\ idx = 1
    /\ documents = <<>>
    /\ returned = <<>>
    /\ page_result = <<>>
    /\ session_log = <<>>
    /\ PageIdle

Next ==
    \/ ExtractNavigationLinks
    \/ CrawlBundleBegin
    \/ CrawlNextPage
    \/ PageReturn
    \/ PolitenessDelay
    \/ BundleReturn
    \/ CallCrawlSinglePage
    \/ FetchAttempt
    \/ Backoff

Spec == Init /\ [][Next]_vars

(***************************************************************************)
(* Properties                                                              *)
(***************************************************************************)
FetchEvents == {i \in 1..Len(page_log) : page_log[i].ev = "fetch"}

NumFetches == Cardinality(FetchEvents)

AllAttemptsFailed == \A i \in FetchEvents : page_log[i].outcome # "clean"

PageReturned == pc = "page_return" /\ page_result # <<>>

\* C1: when every fetch of a crawl_single_page call fails (security block,
\* failed load, or a mix), the call makes exactly max_retries + 1 fetches and
\* returns a failure dict; while the call runs it has made at most max_retries
\* fetches before the next one.
C1_RetryExhaustion ==
    /\ (PageReturned /\ AllAttemptsFailed) =>
           /\ IsError(page_result[1])
           /\ NumFetches = max_retries + 1
    /\ (pc \in {"page_fetch", "page_sleep"}) =>
           /\ AllAttemptsFailed
           /\ NumFetches <= max_retries

C1_Witness ==
    /\ PageReturned
    /\ caller = "bundle"
    /\ max_retries = 2
    /\ NumFetches = 3
    /\ IsError(page_result[1])
    /\ \E i, j \in FetchEvents :
           page_log[i].outcome = "security_block" /\ page_log[j].outcome = "failed"

\* the reason of the failure the last fetch of the call ended in
ReasonOfLastFailure ==
    LET r == result[1]
    IN  IF r.success THEN <<"Security block (WAF/CDN)">>
        ELSE IF r.error_message = <<>> THEN <<"Unknown error">>
        ELSE r.error_message

\* C2 as claimed: a failure result carries the reason of the last failure and
\* attemptsMade, the number of fetches made.
C2_ReasonAndAttempts ==
    (PageReturned /\ IsError(page_result[1])) =>
        /\ page_result[1].error_message = ReasonOfLastFailure
        /\ "attemptsMade" \in DOMAIN page_result[1]
        /\ page_result[1].attemptsMade = NumFetches

\* C2 amended: a failure result carries the page URL and the reason of the
\* last failure of the retry loop ("Unknown error" when that failure has no
\* message), and nothing else: it has no attempt count.
C2_LastReason ==
    (PageReturned /\ IsError(page_result[1])) =>
        /\ DOMAIN page_result[1] = {"error", "url", "error_message"}
        /\ page_result[1].url = url
        /\ page_result[1].error_message = ReasonOfLastFailure

C2_Witness ==
    /\ PageReturned
    /\ IsError(page_result[1])
    /\ NumFetches = 3
    /\ page_log[1].outcome = "security_block"
    /\ page_log[Len(page_log)].outcome = "failed"
    /\ page_result[1].error_message = <<"Timeout">>

Bundle == caller = "bundle"

\* the TOC fetch of the session failed (toc_result is a local of
\* extract_navigation_links; after its return the exit taken tells)
TocFetchFailed ==
    /\ Bundle
    /\ \/ toc_result # <<>> /\ ~toc_result[1].success
       \/ toc_result = <<>> /\ extracted # <<>> /\ extracted[1].via = "toc_fetch_failed"

\* the URLs of the crawl_single_page calls of the session, in call order
RECURSIVE CrawledIn(_)
CrawledIn(log) ==
    IF log = <<>> THEN <<>>
    ELSE (IF Head(log).ev = "crawl" THEN <<Head(log).url>> ELSE <<>>)
         \o CrawledIn(Tail(log))

Crawled == CrawledIn(session_log)

Urls(links) == [i \in 1..Len(links) |-> links[i].url]

\* what a session returns whose table of contents held no link: line 290
NoLinksSessionResult == <<>>

NoLinksSession ==
    /\ Bundle
    /\ pc = "done"
    /\ extracted[1].via = "scanned"
    /\ extracted[1].links = <<>>

\* C3 as claimed: after a failed TOC fetch the session ends in an outcome that
\* differs from that of a session without links, and no page is crawled.
C3_FatalTocFetchError ==
    TocFetchFailed =>
        /\ Crawled = <<>>
        /\ pc = "done" => returned # <<NoLinksSessionResult>>

\* C3 amended: after a failed TOC fetch extract_navigation_links returns the
\* empty list and crawl_documentation_bundle returns the empty list, the very
\* value a session without links returns; no page is crawled.
C3_TocFetchFailure ==
    /\ TocFetchFailed =>
           /\ pc \in {"links_returned", "done"}
           /\ extracted[1].links = <<>>
           /\ Crawled = <<>>
           /\ pc = "done" => returned = <<NoLinksSessionResult>>
    /\ NoLinksSession => returned = <<NoLinksSessionResult>>

C3_Witness ==
    /\ TocFetchFailed
    /\ pc = "done"
    /\ returned = <<<<>>>>
    /\ Crawled = <<>>

\* documents of the successful pages, as the per-page outcomes in the log give them
RECURSIVE SucceededIn(_)
SucceededIn(log) ==
    IF log = <<>> THEN <<>>
    ELSE (IF Head(log).ev = "result" /\ ~Head(log).error THEN <<Head(log).url>> ELSE <<>>)
         \o SucceededIn(Tail(log))

RECURSIVE FailedIn(_)
FailedIn(log) ==
    IF log = <<>> THEN <<>>
    ELSE (IF Head(log).ev = "result" /\ Head(log).error THEN <<Head(log).url>> ELSE <<>>)
         \o FailedIn(Tail(log))

SessionEnded == Bundle /\ pc = "done" /\ Crawled # <<>>

\* C4 as claimed: the session result has one entry per crawled link, failures
\* included.
C4_OneResultPerLink ==
    SessionEnded => Len(returned[1]) = Len(Crawled)

\* C4 amended: the session result holds exactly one Document per crawled link
\* whose crawl succeeded, in discovery order; the failed pages are left out.
C4_SuccessesOnly ==
    Bundle =>
        /\ Urls(documents) = SucceededIn(session_log)
        /\ \A k \in 1..Len(documents) :
               /\ ~IsError(documents[k])
               /\ \E j \in 1..Len(nav_links) :
                      /\ nav_links[j].url = documents[k].url
                      /\ <<nav_links[j].nav_text>> = documents[k].nav_text
        /\ \A k, l \in 1..Len(documents) :
               k < l => \E i, j \in 1..Len(nav_links) :
                            /\ i < j
                            /\ nav_links[i].url = documents[k].url
                            /\ nav_links[j].url = documents[l].url
        /\ SessionEnded =>
               /\ returned = <<documents>>
               /\ Len(returned[1]) + Len(FailedIn(session_log)) = Len(Crawled)

C4_Witness ==
    /\ SessionEnded
    /\ Len(Crawled) = 3
    /\ Len(returned[1]) = 2
    /\ FailedIn(session_log) = <<Crawled[2]>>

\* C5: a failed page does not end the session: the pages are crawled in the
\* order of nav_links, one call per link, and the session ends only after the
\* last link, whatever the results of the pages before.
C5_FailureDoesNotAbort ==
    (Bundle /\ pc \notin {"idle", "links_returned", "raised"} /\ nav_links # <<>>) =>
        /\ Crawled = SubSeq(Urls(nav_links), 1, Len(Crawled))
        /\ Len(Crawled) = (IF pc \in {"loop", "done"} THEN idx - 1 ELSE idx)
        /\ pc = "done" => Crawled = Urls(nav_links)

C5_Witness ==
    /\ SessionEnded
    /\ Len(nav_links) = 3
    /\ Crawled = Urls(nav_links)
    /\ FailedIn(session_log) = <<Crawled[1], Crawled[2]>>
    /\ Len(returned[1]) = 1

\* C6: with max_pages given (and not negative), exactly the first
\* min(max_pages, number of links found) links are crawled.
C6_FirstMinLinks ==
    (Bundle /\ pc = "done" /\ extracted[1].links # <<>>
            /\ max_pages # <<>> /\ max_pages[1] >= 0) =>
        Crawled = Urls(Take(extracted[1].links,
                            Min(max_pages[1], Len(extracted[1].links))))

\* the TOC document extract_navigation_links parsed, while it is at hand
TocParsed ==
    /\ Bundle
    /\ pc \in {"links_returned", "raised"}
    /\ toc_result[1].success
    /\ \E i \in 1..(Len(toc_url) - 2) :
           toc_url[i] = "/bundle/" /\ toc_url[i + 1] \in Digits /\ toc_url[i + 2] = "/page/"

TocHtml == toc_result[1].html


\* the in-bundle anchors of a sequence of anchor lists, in document order
RECURSIVE Flatten(_)
Flatten(lists) == IF lists = <<>> THEN <<>> ELSE Head(lists) \o Flatten(Tail(lists))

RECURSIVE InBundle(_, _)
InBundle(anchors, id) ==
    IF anchors = <<>> THEN <<>>
    ELSE (IF /\ \E i \in 1..(Len(Head(anchors).href) - 2) :
                    /\ Head(anchors).href[i] = "/bundle/"
                    /\ Head(anchors).href[i + 1] = id
                    /\ Head(anchors).href[i + 2] = "/page/"
             /\ "/auth/login" \notin Range(Head(anchors).href)
          THEN <<Head(anchors)>> ELSE <<>>)
         \o InBundle(Tail(anchors), id)

Absolute(href) == IF href[1] = Origin THEN href ELSE <<Origin>> \o href

\* anchor text with the blanks at both ends removed
Trimmed(text) ==
    LET solid == {i \in 1..Len(text) : text[i] # " "}
    IN  IF solid = {} THEN <<>>
        ELSE SubSeq(text, CHOOSE i \in solid : \A j \in solid : i <= j,
                          CHOOSE i \in solid : \A j \in solid : i >= j)

\* the links a scan owes for the candidate anchors c: per URL the first anchor
\* that has a text, in document order
RECURSIVE Picked(_, _)
Picked(c, k) ==
    IF k > Len(c) THEN <<>>
    ELSE (IF /\ Trimmed(c[k].text) # <<>>
             /\ \A j \in 1..(k - 1) :
                    Absolute(c[j].href) = Absolute(c[k].href) => Trimmed(c[j].text) = <<>>
          THEN <<[url |-> Absolute(c[k].href), nav_text |-> Trimmed(c[k].text)]>>
          ELSE <<>>)
         \o Picked(c, k + 1)

\* the anchors of the first list item anchors of the document
RECURSIVE ListItemAnchors(_)
ListItemAnchors(html) ==
    IF html = <<>> THEN <<>>
    ELSE (IF Head(html).name = "li" /\ Head(html).links # <<>>
          THEN <<Head(html).links[1]>> ELSE <<>>)
         \o ListItemAnchors(Tail(html))

BundleIdOfToc == toc_url[(CHOOSE i \in 1..Len(toc_url) : toc_url[i] = "/bundle/") + 1]

SectionCandidates ==
    InBundle(Flatten(SectionRegion(TocHtml, WhatsNewSection(TocHtml))), BundleIdOfToc)

FallbackCandidates == InBundle(ListItemAnchors(TocHtml), BundleIdOfToc)

\* trailing-slash-insensitive identity of a URL
Normalized(u) == IF u[Len(u)] = "/" THEN SubSeq(u, 1, Len(u) - 1) ELSE u

FromSection ==
    /\ TocParsed
    /\ pc = "links_returned"
    /\ WhatsNewSection(TocHtml) # 0
    /\ Picked(SectionCandidates, 1) # <<>>

\* position in the scanned region of the first anchor with the URL u
FirstOccurrence(u) ==
    LET at == {i \in 1..Len(SectionCandidates) :
                  Normalized(Absolute(SectionCandidates[i].href)) = Normalized(u)}
    IN  CHOOSE i \in at : \A j \in at : i <= j

\* C7 as claimed: no two returned links share a normalized URL, a link has the
\* text of the first occurrence of its URL, and links keep document order.
C7_NormalizedUnique ==
    /\ (Bundle /\ pc = "links_returned") =>
           \A i, j \in 1..Len(extracted[1].links) :
               i # j => Normalized(extracted[1].links[i].url)
                            # Normalized(extracted[1].links[j].url)
    /\ FromSection =>
           /\ \A k \in 1..Len(extracted[1].links) :
                  extracted[1].links[k].nav_text =
                      Trimmed(SectionCandidates[
                                  FirstOccurrence(extracted[1].links[k].url)].text)
           /\ \A k, l \in 1..Len(extracted[1].links) :
                  k < l => FirstOccurrence(extracted[1].links[k].url)
                               < FirstOccurrence(extracted[1].links[l].url)

\* C7 amended: no two returned links have the same absolute URL string (URLs
\* that differ in a trailing slash only are kept apart); a link from the
\* section scan carries the text of the first occurrence of its URL that has a
\* non-empty text, and the links keep document order.
C7_ExactUrlUnique ==
    /\ (Bundle /\ pc = "links_returned") =>
           \A i, j \in 1..Len(extracted[1].links) :
               i # j => extracted[1].links[i].url # extracted[1].links[j].url
    /\ FromSection => extracted[1].links = Picked(SectionCandidates, 1)
    /\ (TocParsed /\ pc = "links_returned" /\ WhatsNewSection(TocHtml) # 0
            /\ Picked(SectionCandidates, 1) = <<>>) =>
           extracted[1].links = Picked(FallbackCandidates, 1)

C7_Witness ==
    /\ FromSection
    /\ Len(extracted[1].links) = 2
    /\ Len(SectionCandidates) = 3
    /\ SectionCandidates[1].href = SectionCandidates[3].href
    /\ Trimmed(SectionCandidates[1].text) = <<>>
    /\ Normalized(extracted[1].links[1].url) = Normalized(extracted[1].links[2].url)

\* C8: without a matching heading, list items with qualifying links make the
\* extraction return exactly those links, in document order.
C8_FallbackWithoutHeading ==
    (TocParsed /\ WhatsNewSection(TocHtml) = 0 /\ FallbackCandidates # <<>>) =>
        /\ pc = "links_returned"
        /\ extracted[1].links = Picked(FallbackCandidates, 1)

\* a bundle id can be parsed from the TOC URL
HasBundleId(u) ==
    \E i \in 1..(Len(u) - 2) :
        u[i] = "/bundle/" /\ u[i + 1] \in Digits /\ u[i + 2] \in {"/", "/page/"}

NoBundleId == Bundle /\ ~HasBundleId(toc_url)

\* C9 as claimed: without a bundle id the extraction does not end in the
\* ordinary empty result, and no page is crawled.
C9_StructureError ==
    NoBundleId =>
        /\ ~(pc \in {"links_returned", "done"} /\ extracted[1].links = <<>>)
        /\ Crawled = <<>>

\* C9 amended: without a bundle id the extraction returns the empty list, the
\* very value of the 'no links found' result, raising nothing; the session
\* returns the empty list and crawls no page.
C9_NoBundleIdIsEmpty ==
    /\ NoBundleId =>
           /\ pc \in {"links_returned", "done"}
           /\ extracted[1].links = <<>>
           /\ Crawled = <<>>
           /\ pc = "done" => returned = <<NoLinksSessionResult>>
    /\ NoLinksSession => returned = <<NoLinksSessionResult>> /\ Crawled = <<>>

C9_Witness ==
    /\ NoBundleId
    /\ "/bundle/" \in Range(toc_url)
    /\ extracted[1].via = "no_bundle_id"
    /\ pc = "done"
    /\ returned = <<<<>>>>

\* the body of a fetch carries one of the interstitial's signatures
CarriesSignature(r) ==
    \E i \in 1..Len(r.markdown) :
        r.markdown[i] \in {"Request unsuccessful", "Incapsula incident ID"}

\* C10: no Document is built from a fetch whose body carries a security-block
\* signature; such a fetch sets the security-block reason, is followed by a
\* backoff and a retry while attempt < max_retries, and ends the call with a
\* failure result otherwise.
C10_NoDocumentFromBlock ==
    /\ (PageReturned /\ ~IsError(page_result[1])) =>
           /\ result[1].success
           /\ ~CarriesSignature(result[1])
    /\ (pc \in {"page_sleep", "page_return"} /\ result # <<>>
            /\ result[1].success /\ CarriesSignature(result[1])) =>
           /\ last_error = <<<<"Security block (WAF/CDN)">>>>
           /\ attempt < max_retries => pc = "page_sleep"
           /\ attempt >= max_retries =>
                  /\ pc = "page_return"
                  /\ IsError(page_result[1])
                  /\ page_result[1].error_message = <<"Security block (WAF/CDN)">>

C10_Witness ==
    /\ PageReturned
    /\ ~IsError(page_result[1])
    /\ NumFetches = 3
    /\ \A i \in FetchEvents : i < Len(page_log) => page_log[i].outcome = "security_block"

(***************************************************************************)
(* C11                                                                     *)
(***************************************************************************)
\* the Documents the program holds: the one crawl_single_page has just
\* returned and those collected by crawl_documentation_bundle
DocumentsHeld ==
    {documents[i] : i \in 1..Len(documents)} \cup
    (IF PageReturned /\ ~IsError(page_result[1]) THEN {page_result[1]} ELSE {})

\* s is the first n characters of t, or all of t when t is shorter
IsPrefixOfLength(s, t, n) ==
    /\ Len(s) = (IF Len(t) < n THEN Len(t) ELSE n)
    /\ \A i \in 1..Len(s) : s[i] = t[i]

\* the page has no text outside the elements that are thrown away
NoText(html) ==
    \A i \in 1..Len(html) :
        html[i].name \in NoiseNames \/ \A j \in 1..Len(html[i].text) : html[i].text[j] = " "

\* C11: every Document has content_snippet = the first 1500 characters of
\* full_content (all of it when it is shorter) and content_length =
\* len(full_content); a page fetched cleanly whose content is empty still
\* gives a Document, with empty content, and not a failure.
C11_SnippetInvariant ==
    /\ \A d \in DocumentsHeld :
           /\ IsPrefixOfLength(d.content_snippet, d.full_content, 1500)
           /\ d.content_length = Len(d.full_content)
    /\ (PageReturned /\ page_log[Len(page_log)].outcome = "clean"
            /\ NoText(result[1].html)) =>
           /\ ~IsError(page_result[1])
           /\ page_result[1].full_content = <<>>
           /\ page_result[1].content_snippet = <<>>
           /\ page_result[1].content_length = 0

C11_Witness ==
    /\ PageReturned
    /\ ~IsError(page_result[1])
    /\ page_result[1].content_length > 1500
    /\ Len(page_result[1].content_snippet) = 1500
    /\ page_result[1].content_snippet # page_result[1].full_content

C11_EmptyReached ==
    /\ PageReturned
    /\ ~IsError(page_result[1])
    /\ page_result[1].content_length = 0

(***************************************************************************)
(* C12                                                                     *)
(***************************************************************************)
InPage == pc \in {"page_fetch", "page_sleep", "page_return"}

\* the fetch events of the running crawl_single_page call, in order
FetchSeq == SelectSeq(page_log, LAMBDA e : e.ev = "fetch")

\* pages of the session that have already come back as failures
EarlierFailures ==
    {i \in 1..Len(session_log) : session_log[i].ev = "result" /\ session_log[i].error}

\* C12: in a bundle session every page gets its own retry loop: the loop
\* starts at attempt 0 with no error and no result whatever happened to the
\* pages before it, its k-th fetch is attempt k - 1, a page whose fetches all
\* fail gets max_retries + 1 = 3 of them, and the reason in a failure result
\* is the reason of a failure of that page.
C12_PerPageRetries ==
    (Bundle /\ InPage) =>
        /\ max_retries = 2
        /\ \A k \in 1..Len(FetchSeq) : FetchSeq[k].attempt = k - 1
        /\ page_log = <<>> => (attempt = 0 /\ last_error = <<>> /\ result = <<>>)
        /\ (PageReturned /\ AllAttemptsFailed) => Len(FetchSeq) = 3
        /\ (pc \in {"page_fetch", "page_sleep"}) => Len(FetchSeq) <= 2
        /\ (PageReturned /\ IsError(page_result[1])) =>
               IF page_result[1].error_message = <<"Security block (WAF/CDN)">>
               THEN FetchSeq[Len(FetchSeq)].outcome = "security_block"
               ELSE FetchSeq[Len(FetchSeq)].outcome = "failed"

\* the second failure of a session: both pages used all three fetches
C12_Witness ==
    /\ Bundle
    /\ PageReturned
    /\ EarlierFailures # {}
    /\ IsError(page_result[1])
    /\ Len(FetchSeq) = 3
    /\ FetchSeq[3].attempt = 2

(***************************************************************************)
(* C13                                                                     *)
(***************************************************************************)
\* the wait the claim asks for after a fetch of the given outcome
WaitAfter(outcome) == IF outcome = "security_block" THEN 3000 ELSE 2000

\* C13: in crawl_single_page every fetch but the first comes right after
\* exactly one backoff sleep, which comes right after the failed fetch before
\* it and lasts 3 s after a security block and 2 s after a failed load (the
\* first longer than the second); a sleep follows only a failed fetch whose
\* attempt index is below max_retries, so none follows the final attempt or
\* a clean fetch, and the call returns right after its last fetch.
C13_BackoffBeforeRetry ==
    /\ WaitAfter("security_block") > WaitAfter("failed")
    /\ \A i \in 1..Len(page_log) :
           /\ (page_log[i].ev = "fetch" /\ i > 1) =>
                  /\ page_log[i - 1].ev = "sleep"
                  /\ page_log[i - 2].ev = "fetch"
                  /\ page_log[i].attempt = page_log[i - 2].attempt + 1
           /\ page_log[i].ev = "sleep" =>
                  /\ i > 1
                  /\ page_log[i - 1].ev = "fetch"
                  /\ page_log[i - 1].outcome # "clean"
                  /\ page_log[i - 1].attempt < max_retries
                  /\ page_log[i].ms = WaitAfter(page_log[i - 1].outcome)
    /\ pc = "page_sleep" => page_log[Len(page_log)].ev = "fetch"
    /\ pc = "page_fetch" =>
           (page_log = <<>> \/ page_log[Len(page_log)].ev = "sleep")
    /\ PageReturned =>
           /\ page_log[Len(page_log)].ev = "fetch"
           /\ \/ page_log[Len(page_log)].outcome = "clean"
              \/ page_log[Len(page_log)].attempt = max_retries

\* a failed load, 2 s, a security block, 3 s, and a last failure with no wait
C13_Witness ==
    /\ PageReturned
    /\ IsError(page_result[1])
    /\ Len(page_log) = 5
    /\ page_log[1].outcome = "failed"
    /\ page_log[2].ms = 2000
    /\ page_log[3].outcome = "security_block"
    /\ page_log[4].ms = 3000
    /\ page_log[5].ev = "fetch"

(***************************************************************************)
(* C14                                                                     *)
(***************************************************************************)
\* C14: crawl_documentation_bundle crawls one page at a time in the order of
\* nav_links: the session is a repetition of (start of the crawl of the next
\* link, its result, one politeness sleep of 0.5 s), so the crawl of a link
\* starts only after the result of the link before it and one sleep after
\* that, and while a page is being crawled (retries included) it is the last
\* one started and no sleep or other crawl has been logged since.
C14_SequentialWithDelay ==
    Bundle =>
        /\ \A k \in 1..Len(session_log) :
               LET e == session_log[k]
               IN  /\ k % 3 = 1 =>
                          /\ e.ev = "crawl"
                          /\ (k + 2) \div 3 <= Len(nav_links)
                          /\ e.url = nav_links[(k + 2) \div 3].url
                   /\ k % 3 = 2 => (e.ev = "result" /\ e.url = session_log[k - 1].url)
                   /\ k % 3 = 0 => (e.ev = "sleep" /\ e.ms = 500)
        /\ InPage =>
               /\ Len(session_log) % 3 = 1
               /\ session_log[Len(session_log)].url = url
        /\ pc = "politeness" => Len(session_log) % 3 = 2
        /\ pc \in {"loop", "done"} => Len(session_log) % 3 = 0

\* the third page is being retried after a failed and a successful page
C14_Witness ==
    /\ Bundle
    /\ pc = "page_sleep"
    /\ Len(session_log) = 7
    /\ session_log[2].error
    /\ ~session_log[5].error
    /\ session_log[6].ev = "sleep"
    /\ Len(FetchSeq) = 2

(***************************************************************************)
(* C15                                                                     *)
(***************************************************************************)
HeadingFound == TocParsed /\ WhatsNewSection(TocHtml) # 0

\* URLs of the links a scan owes for the candidates c
UrlsPicked(c) == {Picked(c, 1)[i].url : i \in 1..Len(Picked(c, 1))}

ReturnedUrls == {extracted[1].links[i].url : i \in 1..Len(extracted[1].links)}

C15_NotMergedReached ==
    /\ HeadingFound
    /\ UrlsPicked(SectionCandidates) # {}
    /\ UrlsPicked(FallbackCandidates) \ UrlsPicked(SectionCandidates) # {}

(***************************************************************************)
(* C16                                                                     *)
(***************************************************************************)
First(S) == CHOOSE i \in S : \A j \in S : i <= j

\* the fragment of the URL u: <<>> when it has none, <<f>> otherwise
FragmentOf(u) ==
    LET marks == {i \in 1..Len(u) : u[i] = "#"}
    IN  IF marks = {} THEN <<>> ELSE <<SubSeq(u, First(marks) + 1, Len(u))>>

\* positions in the elements kept of those with the id f
Targets(kept, f) == {i \in 1..Len(kept) : <<kept[i].id>> = f}

\* texts of the elements from i up to, not including, the first heading of
\* level 1-4 after i
Scoped(kept, i) ==
    LET stops == {j \in (i + 1)..Len(kept) : kept[j].name \in {"h1", "h2", "h3", "h4"}}
        last == IF stops = {} THEN Len(kept) ELSE First(stops) - 1
    IN  JoinSpace([k \in 1..(last - i + 1) |-> kept[i + k - 1].text])

Mains(kept) == {i \in 1..Len(kept) : kept[i].name \in {"main", "article"}}

ContentClassed(kept) ==
    {i \in 1..Len(kept) : \E j \in 1..Len(kept[i].class) :
                              kept[i].class[j] \in {"content", "Content"}}

\* the source the priority chain names for the URL u and the elements kept
\* after the noise is removed, with its text
Chain(kept, u) ==
    LET f == FragmentOf(u)
        hits == IF f = <<>> THEN {} ELSE Targets(kept, f[1])
        scoped == IF hits = {} THEN <<>> ELSE Scoped(kept, First(hits))
    IN  IF NormalizeSpace(scoped) # <<>> THEN [source |-> "anchor", text |-> scoped]
        ELSE IF Mains(kept) # {}
        THEN [source |-> "main", text |-> kept[First(Mains(kept))].text]
        ELSE IF ContentClassed(kept) # {}
        THEN [source |-> "class", text |-> kept[First(ContentClassed(kept))].text]
        ELSE [source |-> "document",
              text |-> JoinSpace([k \in 1..Len(kept) |-> kept[k].text])]

\* the chain applied to the page the running call has fetched
Chosen == Chain(Cleaned(result[1].html), url)

\* C16: the content of a Document is the text, with whitespace collapsed, of
\* the first source in this order that applies: the section of the URL's
\* fragment (the target's own text and that of its following siblings up to
\* the first h1-h4) when the target exists and that text is not empty; the
\* first main or article element; the first element with 'content' in its
\* class; the whole document after the noise is removed.
C16_ContentPriority ==
    (PageReturned /\ ~IsError(page_result[1])) =>
        page_result[1].full_content = NormalizeSpace(Chosen.text)

\* the fragment's target is there but blank: the article is taken, and not
\* the element with class 'content' that stands before it
C16_Witness ==
    /\ PageReturned
    /\ ~IsError(page_result[1])
    /\ FragmentOf(url) = <<<<"sec1">>>>
    /\ result[1].html = PageEmptyAnchor
    /\ Chosen.source = "main"
    /\ page_result[1].full_content = <<"Article", " ", "text">>

(***************************************************************************)
(* C17                                                                     *)
(***************************************************************************)
\* the last fetch of the running call was a success without a block signature
LastFetchClean == page_log # <<>> /\ page_log[Len(page_log)].outcome = "clean"

\* C17: the retry loop of crawl_single_page ends at the first fetch that
\* succeeds without a security-block signature: it is the last await of the
\* call (no fetch and no backoff sleep after it), the call has returned a
\* Document whose content is that of the HTML this fetch brought, and it does
\* so also on attempt k <= max_retries after k failures: the Document has no
\* error field and the reasons of those failures are dropped.
C17_FirstCleanFetchEnds ==
    /\ \A i \in 1..Len(page_log) :
           (page_log[i].ev = "fetch" /\ page_log[i].outcome = "clean") =>
               /\ i = Len(page_log)
               /\ pc = "page_return"
    /\ (PageReturned /\ LastFetchClean) =>
           /\ result[1].success
           /\ ~IsError(page_result[1])
           /\ DOMAIN page_result[1] \cap {"error", "error_message"} = {}
           /\ page_result[1].url = url
           /\ page_result[1].full_content =
                  NormalizeSpace(Chain(Cleaned(result[1].html), url).text)
           /\ page_log[Len(page_log)].attempt <= max_retries
           /\ Len(FetchSeq) = page_log[Len(page_log)].attempt + 1
           /\ \A k \in 1..(Len(FetchSeq) - 1) : FetchSeq[k].outcome # "clean"

\* a direct call with max_retries = 3: a failed load, two security blocks,
\* then a clean fetch on the last attempt
C17_Witness ==
    /\ PageReturned
    /\ max_retries = 3
    /\ Len(page_log) = 7
    /\ page_log[1].outcome = "failed"
    /\ page_log[3].outcome = "security_block"
    /\ page_log[5].outcome = "security_block"
    /\ page_log[7].outcome = "clean"
    /\ page_log[7].attempt = 3
    /\ last_error = <<<<"Security block (WAF/CDN)">>>>
    /\ ~IsError(page_result[1])
====
